---------------------------- MODULE Spec2Model ----------------------------
(***************************************************************************)
(* A model of nim_tools (src/nim_tools/__init__.py): the index codec       *)
(* alpha_index, the win solver nimwin, the position generator nimgen and   *)
(* the game loop nimplay.                                                  *)
(*                                                                         *)
(* Python tuples and lists are sequences; a Python index i is the          *)
(* position i + 1 of the sequence.  Indices held in the state (opts) are   *)
(* the Python, 0-based ones.                                               *)
(***************************************************************************)
EXTENDS Integers, Sequences, FiniteSets, TLC

VARIABLES
    pc,         \* position of the running function
    piles,      \* piles: the position
    misere,     \* misere: the game mode argument
    yourturn,   \* nimplay: whether the human is to move
    fairstart,  \* nimgen: the fairstart argument
    sub,        \* nimwin's first result
    opts,       \* nimwin's second result
    inp,        \* nimplay: the line read, as the lists (comm, pile, remv)
    result,     \* nimplay: the result announced
    moves,      \* number of moves applied so far
    total0,     \* number of tokens of the starting position
    arg,        \* alpha_index: the argument of the first call
    mid,        \* alpha_index: the first call's result, argument of the second
    ret         \* alpha_index: the second call's result

vars == <<pc, piles, misere, yourturn, fairstart, sub, opts, inp, result,
          moves, total0, arg, mid, ret>>

-----------------------------------------------------------------------------
(* Bounds of the model *)

\* longest pile tuple handed to nimwin
MaxPiles == 3
\* largest pile value handed to nimwin
MaxTokens == 5
\* longest pile tuple a game of nimplay starts from
GamePiles == 3
\* largest pile value a game of nimplay starts from
GameTokens == 2
\* piles are followed down to -MaxDebt
MaxDebt == 2
\* largest pile count nimgen is followed for
GenPiles == 3
\* largest index handed to alpha_index
MaxIndex == 800
\* longest label handed to alpha_index
MaxLabel == 2
\* alpha_index is also handed the first indices of LongLabel letters
LongLabel == 14
\* how many of them
LongSpan == 60

-----------------------------------------------------------------------------
(* Python's integers: unbounded two's complement *)

RECURSIVE BitXor(_, _)
\* i ^ j
BitXor(i, j) ==
    IF i = 0 THEN j
    ELSE IF j = 0 THEN i
    ELSE IF i = -1 THEN -j - 1
    ELSE IF j = -1 THEN -i - 1
    ELSE (((i % 2) + (j % 2)) % 2) + 2 * BitXor(i \div 2, j \div 2)

RECURSIVE BitAnd(_, _)
\* i & j
BitAnd(i, j) ==
    IF i = 0 \/ j = 0 THEN 0
    ELSE IF i = -1 THEN j
    ELSE IF j = -1 THEN i
    ELSE ((i % 2) * (j % 2)) + 2 * BitAnd(i \div 2, j \div 2)

\* ~p
BitNot(p) == -p - 1

\* sum(1 for p in piles if p > k)
CountAbove(ps, k) == Cardinality({i \in 1..Len(ps) : ps[i] > k})

\* any(p for p in piles)
AnyTokens(ps) == \E i \in 1..Len(ps) : ps[i] # 0

RECURSIVE SumSeq(_)
SumSeq(ps) == IF ps = <<>> THEN 0 ELSE ps[1] + SumSeq(Tail(ps))

-----------------------------------------------------------------------------
(* nimwin *)

\* endgame = sum(1 for p in piles if p > 1) <= 1
endgame(ps) == CountAbove(ps, 1) <= 1

\* (mutant) the parity of the piles left is not looked at
misereBiasNoParity(ps, mis) == IF mis /\ endgame(ps) THEN 1 ELSE 0

\* misere after lines 90-92, as the integer it is added as: False 0, True 1, or -1
misereBias(ps, mis) ==
    IF mis /\ endgame(ps)
    THEN IF CountAbove(ps, 0) % 2 = 1 THEN -1 ELSE 1
    ELSE 0

RECURSIVE xorAll(_)
\* reduce(lambda i, j: i ^ j, piles)
xorAll(ps) == IF Len(ps) = 1 THEN ps[1] ELSE BitXor(ps[1], xorAll(Tail(ps)))

\* match = sub & ~p
match(s, p) == BitAnd(s, BitNot(p))

RECURSIVE nimwinLoopFirst(_, _, _, _, _)
\* (mutant) only the first pile reaching the least match is kept
nimwinLoopFirst(ps, s, i, abjunct, os) ==
    IF i >= Len(ps) THEN [abjunct |-> abjunct, opts |-> os]
    ELSE LET m  == match(s, ps[i + 1])
             a1 == IF m < abjunct THEN m ELSE abjunct
             o1 == IF m < abjunct THEN <<>> ELSE os
             o2 == IF m = a1 /\ o1 = <<>> THEN Append(o1, i) ELSE o1
         IN  nimwinLoopFirst(ps, s, i + 1, a1, o2)

RECURSIVE nimwinLoop(_, _, _, _, _)
\* the for loop of lines 99-106, from Python index i on
nimwinLoop(ps, s, i, abjunct, os) ==
    IF i >= Len(ps) THEN [abjunct |-> abjunct, opts |-> os]
    ELSE LET m  == match(s, ps[i + 1])
             a1 == IF m < abjunct THEN m ELSE abjunct
             o1 == IF m < abjunct THEN <<>> ELSE os
             o2 == IF m = a1 THEN Append(o1, i) ELSE o1
         IN  nimwinLoop(ps, s, i + 1, a1, o2)

\* (mutant) the match is subtracted once
subAfterLoopOnce(s, abjunct) == s - abjunct

\* sub -= 2 * abjunct
subAfterLoop(s, abjunct) == s - 2 * abjunct

\* nimwin(piles, misere): <<sub, opts>>
nimwin(ps, mis) ==
    LET b == misereBias(ps, mis)
        s == xorAll(ps)
    IN  IF s + b # 0
        THEN LET r == nimwinLoop(ps, s, 0, s, <<>>)
             IN  <<subAfterLoop(s, r.abjunct) + b, r.opts>>
        ELSE <<s + b, <<>>>>

-----------------------------------------------------------------------------
(* Values of the variables a specification does not use *)

\* a value alpha_index takes or returns, with its Python type
PyInt(n) == [type |-> "int", val |-> n]
PyStr(s) == [type |-> "str", val |-> s]

NoGame  == /\ yourturn = FALSE /\ inp = <<<<>>, <<>>, <<>>>>
           /\ result = "none" /\ moves = 0 /\ total0 = 0
NoCodec == arg = PyInt(<<>>) /\ mid = PyInt(<<>>) /\ ret = PyInt(<<>>)
NoSolve == sub = 0 /\ opts = <<>>

RECURSIVE TuplesOf(_, _)
\* the tuples of length n over S
TuplesOf(S, n) ==
    IF n = 0 THEN {<<>>}
    ELSE {Append(t, x) : t \in TuplesOf(S, n - 1), x \in S}

\* the non-empty tuples of at most n values of S
TuplesUpTo(S, n) == UNION {TuplesOf(S, k) : k \in 1..n}

-----------------------------------------------------------------------------
(* The solver called on a position *)

InitSolve ==
    /\ pc = "nimwin"
    /\ piles \in TuplesUpTo(0..MaxTokens, MaxPiles)
    /\ misere \in BOOLEAN
    /\ fairstart = FALSE
    /\ NoSolve /\ NoGame /\ NoCodec

NimwinCall ==
    /\ pc = "nimwin"
    /\ LET r == nimwin(piles, misere)
       IN  sub' = r[1] /\ opts' = r[2]
    /\ pc' = "nimwin_ret"
    /\ UNCHANGED <<piles, misere, yourturn, fairstart, inp, result,
                   moves, total0, arg, mid, ret>>

NextSolve == NimwinCall

SpecSolve == InitSolve /\ [][NextSolve]_vars

-----------------------------------------------------------------------------
(* nimgen *)

minpiles  == 3
maxpiles  == 7
mintokens == 2
maxtokens == 12

\* (mutant) the difference is not XORed with the pile
newpileOfNoXor(p, winnable) == p - winnable

\* newpile = piles[selector] - winnable; newpile ^= piles[selector]
newpileOf(p, winnable) == BitXor(p - winnable, p)

\* selector = stack or range(len(piles)): the indices random.choice draws from
selectorsOf(ps, stack) ==
    IF stack # <<>> THEN {stack[k] : k \in 1..Len(stack)}
    ELSE 0..(Len(ps) - 1)

\* the pile counts random.randint(minpiles, maxpiles-1) is followed for
PileCounts == {n \in minpiles..(maxpiles - 1) : n <= GenPiles}

InitGen ==
    /\ pc = "nimgen"
    /\ piles = <<>>
    /\ fairstart \in BOOLEAN
    /\ misere = FALSE
    /\ NoSolve /\ NoGame /\ NoCodec

\* lines 151-155: the pile count and each pile are drawn
GenDraw ==
    /\ pc = "nimgen"
    /\ \E n \in PileCounts :
          piles' \in TuplesOf(mintokens..maxtokens, n)
    /\ pc' = "nimgen_drawn"
    /\ UNCHANGED <<misere, yourturn, fairstart, sub, opts, inp, result,
                   moves, total0, arg, mid, ret>>

\* lines 157-168: the position is evaluated and, to match fairstart, one
\* more pile is appended
GenBalance ==
    /\ pc = "nimgen_drawn"
    /\ LET r        == nimwin(piles, FALSE)
           winnable == r[1]
           stack    == r[2]
       IN  IF fairstart # (winnable # 0)
           THEN \E selector \in selectorsOf(piles, stack) :
                \E drawn \in mintokens..maxtokens :
                   LET newpile == newpileOf(piles[selector + 1], winnable)
                   IN  piles' = Append(piles,
                                       IF newpile # 0 THEN newpile ELSE drawn)
           ELSE piles' = piles
    /\ pc' = "nimgen_ret"
    /\ UNCHANGED <<misere, yourturn, fairstart, sub, opts, inp, result,
                   moves, total0, arg, mid, ret>>

NextGen == GenDraw \/ GenBalance

SpecGen == InitGen /\ [][NextGen]_vars

\* C4: whatever is drawn, the position nimgen returns is one nimwin finds
\* winnable under normal rules when fairstart, and not winnable otherwise.
C4_Fairness ==
    pc = "nimgen_ret" =>
        /\ fairstart => nimwin(piles, FALSE)[1] # 0
        /\ ~fairstart => nimwin(piles, FALSE)[1] = 0

\* a pile differing from the drawn ones was appended to balance the position
C4_Witness ==
    /\ pc = "nimgen_ret" /\ ~fairstart
    /\ Len(piles) = minpiles + 1
    /\ piles[Len(piles)] \notin {piles[1], piles[2], piles[3]}

-----------------------------------------------------------------------------------------------------------------------------------------------------
(* Python's integers have no width and its floats are IEEE 754 doubles.    *)
(* In alpha_index a natural number is the sequence of its digits in base   *)
(* Limb, least first and the last one above 0, zero being <<>>.            *)

LimbBits == 24
Limb == 2 ^ LimbBits

RECURSIVE Limbs(_)
\* the digits of n
Limbs(n) == IF n = 0 THEN <<>> ELSE <<n % Limb>> \o Limbs(n \div Limb)

RECURSIVE NatOf(_)
\* the number of digits b
NatOf(b) == IF b = <<>> THEN 0 ELSE b[1] + Limb * NatOf(Tail(b))

RECURSIVE Trim(_)
Trim(b) ==
    IF b = <<>> \/ b[Len(b)] # 0 THEN b ELSE Trim(SubSeq(b, 1, Len(b) - 1))

Low(b)  == IF b = <<>> THEN 0 ELSE b[1]
Rest(b) == IF b = <<>> THEN <<>> ELSE Tail(b)

RECURSIVE AddCarry(_, _, _)
AddCarry(a, b, c) ==
    IF a = <<>> /\ b = <<>> THEN IF c = 1 THEN <<1>> ELSE <<>>
    ELSE LET s == Low(a) + Low(b) + c
         IN  <<s % Limb>> \o AddCarry(Rest(a), Rest(b), s \div Limb)

\* a + b
Plus(a, b) == AddCarry(a, b, 0)

RECURSIVE SubBorrow(_, _, _)
SubBorrow(a, b, c) ==
    IF a = <<>> THEN <<>>
    ELSE LET d == Low(a) - Low(b) - c
         IN  <<d % Limb>> \o SubBorrow(Rest(a), Rest(b), IF d < 0 THEN 1 ELSE 0)

\* a - b, for a >= b
Minus(a, b) == Trim(SubBorrow(a, b, 0))

RECURSIVE LessSame(_, _)
LessSame(a, b) ==
    IF a = <<>> THEN FALSE
    ELSE LET n == Len(a)
         IN  IF a[n] # b[n] THEN a[n] < b[n]
             ELSE LessSame(SubSeq(a, 1, n - 1), SubSeq(b, 1, n - 1))

\* a < b
Less(a, b) == IF Len(a) # Len(b) THEN Len(a) < Len(b) ELSE LessSame(a, b)

RECURSIVE MulCarry(_, _, _)
MulCarry(a, k, c) ==
    IF a = <<>> THEN Limbs(c)
    ELSE LET t == a[1] * k + c
         IN  <<t % Limb>> \o MulCarry(Tail(a), k, t \div Limb)

\* a * k, k a small number
Times(a, k) == IF k = 0 THEN <<>> ELSE MulCarry(a, k, 0)

RECURSIVE DivMod(_, _)
\* divmod(a, k), k a small number above 0
DivMod(a, k) ==
    IF a = <<>> THEN [q |-> <<>>, r |-> 0]
    ELSE LET hi == DivMod(Tail(a), k)
             t  == Limb * hi.r + a[1]
         IN  [q |-> IF hi.q = <<>> /\ t < k THEN <<>> ELSE <<t \div k>> \o hi.q,
              r |-> t % k]

RECURSIVE PowLoop(_, _)
\* e more multiplications by b
PowLoop(st, b) ==
    IF st.e = 0 THEN st.acc
    ELSE PowLoop([acc |-> Times(st.acc, b), e |-> st.e - 1], b)

\* b ** e
PowOf(b, e) == PowLoop([acc |-> <<1>>, e |-> e], b)

RECURSIVE Width(_)
\* n.bit_length()
Width(n) == IF n = 0 THEN 0 ELSE 1 + Width(n \div 2)

\* a.bit_length()
BitLength(a) ==
    IF a = <<>> THEN 0 ELSE LimbBits * (Len(a) - 1) + Width(a[Len(a)])

\* binary digit j of a, the least being digit 0
BitAt(a, j) == (a[(j \div LimbBits) + 1] \div (2 ^ (j % LimbBits))) % 2

\* a with its t least binary digits cleared
ClearLow(a, t) ==
    [k \in 1..Len(a) |->
        LET lo == LimbBits * (k - 1)
        IN  IF lo + LimbBits <= t THEN 0
            ELSE IF lo >= t THEN a[k]
            ELSE a[k] - (a[k] % (2 ^ (t - lo)))]

\* 2 ** t
PowerOfTwo(t) ==
    [k \in 1..((t \div LimbBits) + 1) |->
        IF k = (t \div LimbBits) + 1 THEN 2 ^ (t % LimbBits) ELSE 0]

\* float(a), a an integer: the nearest double, the 53 leading binary digits
\* rounded half to even
ToFloat(a) ==
    IF BitLength(a) <= 53 THEN a
    ELSE LET t  == BitLength(a) - 53
             up == /\ BitAt(a, t - 1) = 1
                   /\ \/ BitAt(a, t) = 1
                      \/ \E j \in 0..(t - 2) : BitAt(a, j) = 1
         IN  IF up THEN Plus(ClearLow(a, t), PowerOfTwo(t)) ELSE ClearLow(a, t)

RECURSIVE FloorLog(_, _)
\* int(log(x, b)), x a double of integer value >= 1: the largest e with
\* b ** e <= x.  The quotient of the two rounded logarithms math.log
\* returns is not followed: it gives this for every index the model draws.
FloorLog(x, b) ==
    IF Less(x, Limbs(b)) THEN 0 ELSE 1 + FloorLog(DivMod(x, b).q, b)

-----
(* alpha_index.  A Python string is the sequence of its characters. *)

numalpha ==
    << "0", "1", "2", "3", "4", "5", "6", "7", "8", "9",
       "A", "B", "C", "D", "E", "F", "G", "H", "I", "J", "K", "L", "M",
       "N", "O", "P", "Q", "R", "S", "T", "U", "V", "W", "X", "Y", "Z" >>

\* numalpha[10:]
letters == SubSeq(numalpha, 11, Len(numalpha))

\* s.index(c): the Python index of the first c in s
IndexIn(s, c) ==
    (CHOOSE k \in 1..Len(s) : s[k] = c /\ \A j \in 1..(k - 1) : s[j] # c) - 1

\* alphalen = lambda i: int(log(25*i+26, 26)); math.log takes the float of
\* its integer argument
alphalen(i) == FloorLog(ToFloat(Plus(Times(i, 25), Limbs(26))), 26)

\* floorval = lambda length: int((26**length-26)/25), for length >= 1: the
\* quotient of the two integers is the double nearest to it
floorval(length) ==
    ToFloat(DivMod(Minus(PowOf(26, length), Limbs(26)), 25).q)

RECURSIVE encodeLoop(_, _, _, _)
\* the while loop of lines 34-36 on n = -mag if neg, mag otherwise: divmod
\* rounds the quotient down; upper is built least digit first
encodeLoop(neg, mag, strlen, upper) ==
    IF Len(upper) >= strlen THEN upper
    ELSE LET d   == DivMod(mag, 26)
             odd == neg /\ d.r # 0
             rem == IF odd THEN 26 - d.r ELSE d.r
             quo == IF odd THEN Plus(d.q, <<1>>) ELSE d.q
         IN  encodeLoop(neg, quo, strlen, Append(upper, letters[rem + 1]))

\* upper[::-1]
Reversed(s) == [k \in 1..Len(s) |-> s[Len(s) + 1 - k]]

RECURSIVE IntLoop(_, _, _)
\* the digits of s from the k-th on, each entering below those before it
IntLoop(st, s, base) ==
    IF st.k > Len(s) THEN st.acc
    ELSE IntLoop([acc |-> Plus(Times(st.acc, base),
                               Limbs(IndexIn(numalpha, s[st.k]))),
                  k   |-> st.k + 1], s, base)

\* int(s, base), s a string of digits of numalpha below base
IntOf(s, base) == IntLoop([acc |-> <<>>, k |-> 1], s, base)

\* the for loop of lines 41-42: each letter becomes the digit of its rank
decodeLoop(s) == [k \in 1..Len(s) |-> numalpha[IndexIn(letters, s[k]) + 1]]

\* alpha_index(n): lines 30-37 for an int, lines 38-43 for a string
alpha_index(n) ==
    IF n.type = "int"
    THEN LET i      == n.val
             strlen == alphalen(i)
             lower  == floorval(strlen)
             neg    == Less(i, lower)
             mag    == IF neg THEN Minus(lower, i) ELSE Minus(i, lower)
         IN  PyStr(Reversed(encodeLoop(neg, mag, strlen, <<>>)))
    ELSE PyInt(Plus(floorval(Len(n.val)), IntOf(decodeLoop(n.val), 26)))

\* the strings of 1..MaxLabel letters
Labels == TuplesUpTo({letters[k] : k \in 1..Len(letters)}, MaxLabel)

\* the first index whose string has n letters
FirstOfLength(n) == DivMod(Minus(PowOf(26, n), Limbs(26)), 25).q

\* the indices drawn: the first ones, and the first ones of LongLabel letters
IndicesDrawn ==
    {Limbs(n) : n \in 0..MaxIndex}
        \cup {Plus(FirstOfLength(LongLabel), Limbs(j)) : j \in 0..LongSpan}

InitCodec ==
    /\ pc = "alpha_index"
    /\ \/ \E n \in IndicesDrawn : arg = PyInt(n)
       \/ \E s \in Labels : arg = PyStr(s)
    /\ mid = PyInt(<<>>) /\ ret = PyInt(<<>>)
    /\ piles = <<>> /\ misere = FALSE /\ fairstart = FALSE
    /\ NoSolve /\ NoGame

\* alpha_index is called on the argument
AlphaIndexCall ==
    /\ pc = "alpha_index"
    /\ mid' = alpha_index(arg)
    /\ pc' = "alpha_index_back"
    /\ UNCHANGED <<piles, misere, yourturn, fairstart, sub, opts, inp,
                   result, moves, total0, arg, ret>>

\* alpha_index is called on what it returned
AlphaIndexBack ==
    /\ pc = "alpha_index_back"
    /\ ret' = alpha_index(mid)
    /\ pc' = "alpha_index_ret"
    /\ UNCHANGED <<piles, misere, yourturn, fairstart, sub, opts, inp,
                   result, moves, total0, arg, mid>>

NextCodec == AlphaIndexCall \/ AlphaIndexBack

SpecCodec == InitCodec /\ [][NextCodec]_vars

\* C5: alpha_index applied to an index and then to the resulting string
\* gives the index back, and applied to a non-empty string of letters A-Z
\* and then to the resulting index gives the string back.
C5_RoundTrip == pc = "alpha_index_ret" => ret = arg

-----------------------------------------------------------------------------
(* nimplay.  A line typed by the human is held as the lists (comm, pile,   *)
(* remv) the loop of lines 329-331 sorts the matches of the pattern into;  *)
(* each match is the sequence of its characters.                           *)

\* the position after amount n is taken from the pile of Python index i:
\* piles[pile] -= remv
Take(ps, i, n) == [ps EXCEPT ![i + 1] = @ - n]

\* the Python indices of a tuple
Indices(ps) == 0..(Len(ps) - 1)

\* the members of a tuple
Members(os) == {os[k] : k \in 1..Len(os)}

\* int(p / 2): the quotient is cut towards zero
HalfOf(p) == IF p >= 0 THEN p \div 2 ELSE -((-p) \div 2)

END == <<"E", "N", "D">>
ALL == <<"-", "A", "L", "L">>

\* the labels typed: those of the piles a game can have and the one after
LabelsTyped == {alpha_index(PyInt(Limbs(i))).val : i \in 0..GamePiles}

\* the amounts typed: decimal numbers of one digit, and -ALL
AmountsTyped == {<<numalpha[n + 1]>> : n \in 0..(GameTokens + 1)} \cup {ALL}

\* the lines typed, as (comm, pile, remv)
LinesTyped ==
    {<<c, p, r>> : c \in {<<>>, <<END>>},
                   p \in {<<>>} \cup {<<l>> : l \in LabelsTyped},
                   r \in {<<>>} \cup {<<a>> : a \in AmountsTyped}}

\* line 333-334: the line is the command END alone
IsEnd(line) ==
    /\ Len(line[1]) + Len(line[2]) + Len(line[3]) = 1
    /\ line[1] # <<>>
    /\ line[1][1] = END

\* line 336: len(pile) == 1 == len(remv) > len(comm)
IsMove(line) ==
    Len(line[2]) = 1 /\ Len(line[3]) = 1 /\ Len(line[3]) > Len(line[1])

\* alpha_index on each label typed
IndexTyped == [l \in LabelsTyped |-> NatOf(alpha_index(PyStr(l)).val)]

\* line 337: pile = alpha_index(pile[0])
pileTyped(line) == IndexTyped[line[2][1]]

\* lines 339-340: -ALL reads piles[pile], an IndexError past the last pile
RaisesIndexError(line, ps) ==
    IsMove(line) /\ line[3][1] = ALL /\ pileTyped(line) >= Len(ps)

\* lines 339-342: remv
remvTyped(line, ps) ==
    IF line[3][1] = ALL THEN ps[pileTyped(line) + 1]
    ELSE NatOf(IntOf(line[3][1], 10))

\* line 344: pile < len(piles) and piles[pile] >= remv > 0
Accepted(line, ps) ==
    /\ IsMove(line)
    /\ ~RaisesIndexError(line, ps)
    /\ pileTyped(line) < Len(ps)
    /\ ps[pileTyped(line) + 1] >= remvTyped(line, ps)
    /\ remvTyped(line, ps) > 0

\* (mutant) the CPU takes from any pile with tokens
cpuPilesAny(ps, mis) == {i \in Indices(ps) : ps[i + 1] > 0}

\* lines 349-352: the piles random.choice picks the CPU's pile from
cpuPiles(ps, mis) ==
    LET stack == nimwin(ps, mis)[2]
    IN  IF stack # <<>> THEN Members(stack)
        ELSE {i \in Indices(ps) : ps[i + 1] > 0}

\* lines 349-354: the amounts the CPU can take from pile i
cpuAmounts(ps, mis, i) ==
    LET r == nimwin(ps, mis)[1]
    IN  IF r # 0 THEN {r} ELSE 1..(HalfOf(ps[i + 1]) + 1)

NoLine == <<<<>>, <<>>, <<>>>>

Init ==
    /\ pc = "nimplay"
    /\ piles \in TuplesUpTo(0..GameTokens, GamePiles)
    /\ misere \in BOOLEAN
    /\ yourturn \in BOOLEAN
    /\ fairstart = FALSE
    /\ inp = NoLine
    /\ result = "none"
    /\ moves = 0 /\ total0 = 0
    /\ NoSolve /\ NoCodec

\* lines 316-331: tokens are left, it is the human's turn and a line is read
HumanLine ==
    /\ pc = "nimplay" /\ AnyTokens(piles) /\ yourturn
    /\ \E line \in LinesTyped : inp' = line
    /\ pc' = "line"
    /\ UNCHANGED <<piles, misere, yourturn, fairstart, sub, opts, result,
                   moves, total0, arg, mid, ret>>

\* lines 333-347 and 359: the line read is dealt with.  -END returns, -ALL
\* on a label past the last pile raises, a move that passes line 344 ends
\* the turn and is applied, anything else prompts again.  The lists are
\* built anew for each line (lines 325-328): they are emptied here.
HumanTurn ==
    /\ pc = "line"
    /\ IF IsEnd(inp)
       THEN pc' = "returned" /\ UNCHANGED <<piles, yourturn>>
       ELSE IF RaisesIndexError(inp, piles)
       THEN pc' = "IndexError" /\ UNCHANGED <<piles, yourturn>>
       ELSE IF Accepted(inp, piles)
       THEN /\ piles' = Take(piles, pileTyped(inp), remvTyped(inp, piles))
            /\ yourturn' = FALSE
            /\ pc' = "nimplay"
       ELSE pc' = "nimplay" /\ UNCHANGED <<piles, yourturn>>
    /\ inp' = NoLine
    /\ UNCHANGED <<misere, fairstart, sub, opts, result, moves, total0,
                   arg, mid, ret>>

\* lines 348-359: the CPU's turn; random.choice raises on an empty list
CpuTurn ==
    /\ pc = "nimplay" /\ AnyTokens(piles) /\ ~yourturn
    /\ IF cpuPiles(piles, misere) = {}
       THEN pc' = "IndexError" /\ UNCHANGED <<piles, yourturn>>
       ELSE /\ \E i \in cpuPiles(piles, misere) :
               \E n \in cpuAmounts(piles, misere, i) :
                  piles' = Take(piles, i, n)
            /\ yourturn' = TRUE
            /\ pc' = pc
    /\ UNCHANGED <<misere, fairstart, sub, opts, inp, result, moves,
                   total0, arg, mid, ret>>

\* lines 316 and 361: no token is left and the result is announced
Announce ==
    /\ pc = "nimplay" /\ ~AnyTokens(piles)
    /\ result' = IF yourturn # misere THEN "lose" ELSE "win"
    /\ pc' = "done"
    /\ UNCHANGED <<piles, misere, yourturn, fairstart, sub, opts, inp,
                   moves, total0, arg, mid, ret>>

Next == HumanLine \/ HumanTurn \/ CpuTurn \/ Announce

Spec == Init /\ [][Next]_vars

-----------------------------------------------------------------------------
(* Play in which both sides move as the CPU branch of nimplay does *)

InitSelfPlay ==
    /\ pc = "nimplay"
    /\ piles \in TuplesUpTo(0..GameTokens, GamePiles)
    /\ misere \in BOOLEAN
    /\ yourturn = FALSE
    /\ fairstart = FALSE
    /\ inp = NoLine
    /\ result = "none"
    /\ moves = 0 /\ total0 = SumSeq(piles)
    /\ NoSolve /\ NoCodec

\* lines 348-359, for either side.  Moves are counted up to one past the
\* tokens of the starting position, and piles followed down to -MaxDebt.
SolverMove ==
    /\ pc = "nimplay" /\ AnyTokens(piles)
    /\ moves <= total0
    /\ IF cpuPiles(piles, misere) = {}
       THEN pc' = "IndexError" /\ UNCHANGED <<piles, moves>>
       ELSE /\ \E i \in cpuPiles(piles, misere) :
               \E n \in cpuAmounts(piles, misere, i) :
                  /\ piles[i + 1] - n >= -MaxDebt
                  /\ piles' = Take(piles, i, n)
            /\ moves' = moves + 1
            /\ pc' = pc
    /\ UNCHANGED <<misere, yourturn, fairstart, sub, opts, inp, result,
                   total0, arg, mid, ret>>

\* line 316: no token is left
SelfPlayOver ==
    /\ pc = "nimplay" /\ ~AnyTokens(piles)
    /\ pc' = "done"
    /\ UNCHANGED <<piles, misere, yourturn, fairstart, sub, opts, inp,
                   result, moves, total0, arg, mid, ret>>

NextSelfPlay == SolverMove \/ SelfPlayOver

SpecSelfPlay == InitSelfPlay /\ [][NextSelfPlay]_vars

-----------------------------------------------------------------------------
(* Claims about nimwin, checked under SpecSolve *)

Returned == pc = "nimwin_ret"

\* C1: whenever nimwin returns candidates, in either mode and with spent
\* piles allowed, 0 < sub and sub <= piles[i] for every candidate i.
C1_LegalMoves ==
    (Returned /\ opts # <<>>) =>
        \A i \in Members(opts) : sub > 0 /\ sub <= piles[i + 1]

\* C2: under normal rules, a position of non-zero XOR gets candidates, and
\* taking sub from any one candidate leaves a position of XOR 0.
C2_Soundness ==
    (Returned /\ ~misere /\ xorAll(piles) # 0) =>
        /\ opts # <<>>
        /\ \A i \in Members(opts) : xorAll(Take(piles, i, sub)) = 0

\* a position where the XOR is zeroed by less than the XOR itself
C2_Witness ==
    /\ Returned /\ ~misere /\ xorAll(piles) # 0
    /\ sub # xorAll(piles) /\ Len(opts) >= 1

\* the positions one legal move away
MovesFrom(ps) ==
    UNION {{Take(ps, i, n) : n \in 1..ps[i + 1]} : i \in Indices(ps)}

\* the positions handed to nimwin
Positions == TuplesUpTo(0..MaxTokens, MaxPiles)

RECURSIVE LostUpTo(_, _)
\* the positions of at most k tokens the player to move loses from, by
\* search of the game: with no token left the player to move has lost in
\* normal play (the other took the last token) and won in misere play
LostUpTo(mis, k) ==
    IF k = 0 THEN IF mis THEN {} ELSE {ps \in Positions : SumSeq(ps) = 0}
    ELSE LET prev == LostUpTo(mis, k - 1)
         IN  prev \cup {ps \in Positions :
                          /\ SumSeq(ps) = k
                          /\ \A q \in MovesFrom(ps) : q \notin prev}

LostNormal == LostUpTo(FALSE, MaxPiles * MaxTokens)
LostMisere == LostUpTo(TRUE, MaxPiles * MaxTokens)

MoverLoses(ps, mis) == IF mis THEN ps \in LostMisere ELSE ps \in LostNormal

\* C3: with a token left, in either mode, nimwin returns (0, ()) exactly
\* when the player to move loses under best play, and a non-zero sub exactly
\* when the player to move can force a win.
C3_Decision ==
    (Returned /\ AnyTokens(piles)) =>
        /\ (sub = 0 /\ opts = <<>>) <=> MoverLoses(piles, misere)
        /\ (sub # 0) <=> ~MoverLoses(piles, misere)

\* a misere endgame of three tokens or more lost by the player to move
C3_Witness ==
    /\ Returned /\ misere /\ endgame(piles) /\ SumSeq(piles) >= 3
    /\ MoverLoses(piles, misere) /\ sub = 0

\* C6: under normal rules and non-zero XOR, every pile from which taking
\* sub is legal and leaves XOR 0 is among the candidates, and no candidate
\* is listed twice.
C6_AllTies ==
    (Returned /\ ~misere /\ xorAll(piles) # 0) =>
        /\ \A i \in Indices(piles) :
              (sub <= piles[i + 1] /\ xorAll(Take(piles, i, sub)) = 0)
                  => i \in Members(opts)
        /\ \A j, k \in 1..Len(opts) : j # k => opts[j] # opts[k]

\* a position with several candidates
C6_Witness ==
    /\ Returned /\ ~misere /\ xorAll(piles) # 0
    /\ Len(opts) >= 2

-----------------------------------------------------------------------------
(* Claims about play *)

\* C7: in either mode, play in which every move is the CPU's never takes
\* more moves than the starting position has tokens, and never stops with
\* tokens left.
C7_Terminality == moves <= total0 /\ pc # "IndexError"

\* C8: in nimplay, in either mode, no pile is ever negative.
C8_NonNegative == \A i \in 1..Len(piles) : piles[i] >= 0

\* the move a line describes is legal: the pile exists and the amount,
\* typed as a number or as -ALL (the whole pile), is above 0 and at most
\* the pile
C9_Legal(line, ps) ==
    /\ Len(line[1]) = 0 /\ Len(line[2]) = 1 /\ Len(line[3]) = 1
    /\ LET i == NatOf(alpha_index(PyStr(line[2][1])).val)
       IN  /\ i < Len(ps)
           /\ LET n == IF line[3][1] = ALL THEN ps[i + 1]
                       ELSE NatOf(IntOf(line[3][1], 10))
              IN  0 < n /\ n <= ps[i + 1]

\* C9: a line naming a pile and an amount that is not a legal move is
\* rejected without an error (piles and turn unchanged, the human prompted
\* again), and only a legal move changes the piles and ends the turn.
C9_InputValidation ==
    [][ pc = "line" =>
          /\ (Len(inp[2]) = 1 /\ Len(inp[3]) = 1 /\ ~C9_Legal(inp, piles))
                => (pc' = "nimplay" /\ piles' = piles /\ yourturn' = yourturn)
          /\ (piles' # piles \/ yourturn' # yourturn) => C9_Legal(inp, piles)
      ]_vars

\* in normal play the CPU is in control: it is to move on a non-zero XOR,
\* or the human is on a zero XOR
Controlled ==
    /\ ~misere
    /\ IF yourturn THEN xorAll(piles) = 0 ELSE xorAll(piles) # 0

\* C10: in normal play, once the CPU is to move on a non-zero XOR it stays
\* in control whatever the human does: every position handed to the human
\* has XOR 0, and the result announced is 'you lose'.
C10_CpuKeepsControl ==
    /\ [][Controlled => Controlled']_vars
    /\ [](Controlled /\ pc = "done" => yourturn /\ result = "lose")

\* the CPU took the last token of a game of three piles in normal play
C10_Witness ==
    /\ pc = "done" /\ Controlled /\ result = "lose"
    /\ Len(piles) = 3

=============================================================================
